---- MODULE Spec2Model ----
(***************************************************************************)
(* Model of src/app/page.tsx: the Spirit PFP generator.                    *)
(*                                                                         *)
(*  - the React component state (img, size, the effect options), the       *)
(*    asynchronous image loads started by handleFile, the effect that      *)
(*    calls draw, the draw pipeline stage by stage, and download;          *)
(*  - the helpers fitCover, seeded, drawParticles, drawLightning.          *)
(*                                                                         *)
(* Numbers.  Slider values with step 0.01 are held in hundredths           *)
(* (intensity 0.7 is 70).  A 32-bit stream state is held as two 16-bit     *)
(* limbs <<hi, lo>> (value hi * 2^16 + lo), because the products of the    *)
(* generator exceed the integers the model checker computes with; the      *)
(* value returned by a stream, n / 2^24, is held as its numerator n.       *)
(***************************************************************************)
EXTENDS Integers, Sequences, FiniteSets, TLC

VARIABLES
  p,             \* the effect options and size held in React state (lines 16-27)
  img,           \* React state img: 0 (null) or the number of the pick whose Image it is
  busy,          \* the value last passed to setBusy
  picks,         \* the files handed to handleFile, in order; pick i created Image i
  loading,       \* the picks whose Image has not fired onload yet
  effectPending, \* a commit changed a dependency of the effect, which has not run yet
  pc,            \* the position of draw: "idle" or the stage about to run
  active,        \* the number of draw calls begun and not yet returned
  canvas,        \* the canvas element: size, bitmap (a log of paint operations), context state
  ran,           \* the stages the current (or last) draw executed, in order
  fitArgs,       \* the source sizes the current (or last) draw handed to fitCover
  outcome,       \* how the current (or last) draw ended
  lastComplete,  \* the surface as the last completed draw left it
  exported,      \* what the last download read: "none", "complete" or "partial"
  nEvents,       \* the number of user events so far
  streams,       \* SpecRng: the two streams under test
  fit            \* SpecFit: the last fitCover call, <<>> or <<[iw, ih, W, H, out]>>

vars == <<p, img, busy, picks, loading, effectPending, pc, active, canvas, ran,
          fitArgs, outcome, lastComplete, exported, nEvents,
          streams, fit>>

appVars == <<p, img, busy, picks, loading, effectPending, pc, active, canvas, ran,
             fitArgs, outcome, lastComplete, exported, nEvents>>

(***************************************************************************)
(* Bounds of the model.                                                    *)
(***************************************************************************)
MaxEvents == 3    \* user events (picks, control changes, resets, downloads) in one run
MaxCalls == 3     \* calls on each stream under test
MaxSide == 12     \* small source sides tried on fitCover

(***************************************************************************)
(* seeded (lines 403-410).                                                 *)
(***************************************************************************)
Limb == 2^16

\* 1664525 = 25 * 2^16 + 26125 and 1013904223 = 15470 * 2^16 + 62303.
Multiplier == <<25, 26125>>
Increment == <<15470, 62303>>

\* A seed is <<k, n>>, the number k * 2^32 + n with n a 32-bit signed integer.
\* seed >>> 0 is that number modulo 2^32: the multiple of 2^32 drops out and n
\* is taken modulo 2^32, limb by limb.
ToUint32(seed) == <<(seed[2] \div Limb) % Limb, seed[2] % Limb>>

\* seeded without || 1
seededNoCoerce(seed) == ToUint32(seed)

\* let s = seed >>> 0 || 1
seeded(seed) ==
  LET u == ToUint32(seed) IN IF u = <<0, 0>> THEN <<0, 1>> ELSE u

\* the step with | 0 for >>> 0: the state as a signed 32-bit integer
LcgStepSigned(s) ==
  LET lo == Multiplier[2] * s[2] + Increment[2]
      hi == Multiplier[1] * s[2] + Multiplier[2] * s[1] + Increment[1] + (lo \div Limb)
  IN  <<((hi + 32768) % Limb) - 32768, lo % Limb>>

\* s = (1664525 * s + 1013904223) >>> 0.  The product and the sum stay below
\* 2^53 for every s < 2^32, so the double arithmetic is exact and >>> 0 takes
\* the exact sum modulo 2^32.
LcgStep(s) ==
  LET lo == Multiplier[2] * s[2] + Increment[2]
      hi == Multiplier[1] * s[2] + Multiplier[2] * s[1] + Increment[1] + (lo \div Limb)
  IN  <<hi % Limb, lo % Limb>>

\* (s & 0x00ffffff) / 0x01000000, as the numerator over 2^24
Output(s) == (s[1] % 256) * Limb + s[2]

\* the state after n calls (n is halved, and the midpoint
\* computed before it is passed on, to keep the evaluation shallow)
RECURSIVE Advance(_, _)
Advance(s, n) ==
  IF n = 0 THEN s
  ELSE IF n = 1 THEN LcgStep(s)
  ELSE LET m == Advance(s, n \div 2)
       IN  IF m[2] >= 0 THEN Advance(m, n - (n \div 2)) ELSE m

\* a ^ b on non-negative 32-bit integers
RECURSIVE BitXor(_, _)
BitXor(a, b) ==
  IF a = 0 THEN b
  ELSE IF b = 0 THEN a
  ELSE 2 * BitXor(a \div 2, b \div 2) + ((a + b) % 2)

(***************************************************************************)
(* fitCover (lines 318-335).  iw / ih > W / H is compared exactly; a zero  *)
(* ih gives Infinity (iw > 0) or NaN (iw = 0), and NaN > r is false.       *)
(* Math.floor(ih * (W / H)) is (ih * W) \div H: draw always passes W = H,  *)
(* for which W / H is exactly 1.                                           *)
(***************************************************************************)
Wider(iw, ih, W, H) == IF ih = 0 THEN iw > 0 ELSE iw * H > W * ih

\* fitCover with the test ir > r inverted
fitCoverSwapped(iw, ih, W, H) ==
  IF ~Wider(iw, ih, W, H)
    THEN LET s == (ih * W) \div H
         IN  [sx |-> (iw - s) \div 2, sy |-> 0, s |-> s, dx |-> 0, dy |-> 0, d |-> W]
    ELSE LET s == (iw * H) \div W
         IN  [sx |-> 0, sy |-> (ih - s) \div 2, s |-> s, dx |-> 0, dy |-> 0, d |-> H]

fitCover(iw, ih, W, H) ==
  IF Wider(iw, ih, W, H)
    THEN LET s == (ih * W) \div H
         IN  [sx |-> (iw - s) \div 2, sy |-> 0, s |-> s, dx |-> 0, dy |-> 0, d |-> W]
    ELSE LET s == (iw * H) \div W
         IN  [sx |-> 0, sy |-> (ih - s) \div 2, s |-> s, dx |-> 0, dy |-> 0, d |-> H]

\* clamp (lines 314-316)
Max(a, b) == IF a > b THEN a ELSE b
Min(a, b) == IF a < b THEN a ELSE b
clamp(v, a, b) == Max(a, Min(b, v))

(***************************************************************************)
(* The canvas: its size, its bitmap and the drawing state of its 2d        *)
(* context.  The bitmap is the log of the paint operations since it was    *)
(* last cleared, each with the drawing state it was painted under.         *)
(***************************************************************************)
Style(kind, geom, stops) == [kind |-> kind, geom |-> geom, stops |-> stops]
Stop(rgb, a) == [rgb |-> rgb, a |-> a]       \* a: alpha in 1/10000
Color(c) == Style("color", <<>>, <<Stop(c, 10000)>>)

NoFilter == <<>>

DefaultCtx ==
  [fillStyle |-> Color("#000000"), strokeStyle |-> Color("#000000"),
   lineWidth |-> 1, comp |-> "source-over", filter |-> NoFilter]

\* a canvas element as created: 300 x 150, transparent, default drawing state
InitCanvas ==
  [width |-> 300, height |-> 150, ops |-> <<>>, ctx |-> DefaultCtx, stack |-> <<>>]

Surface(cv) == [width |-> cv.width, height |-> cv.height, ops |-> cv.ops]

\* cv.width = W; cv.height = H: setting a dimension resizes the bitmap, clears
\* it and resets the context to its default state, saved states included
SetSize(cv, W, H) ==
  [width |-> W, height |-> H, ops |-> <<>>, ctx |-> DefaultCtx, stack |-> <<>>]

\* ctx.clearRect(0, 0, W, H) over the whole surface
ClearRect(cv) == [cv EXCEPT !.ops = <<>>]

\* lines 58-64 without the resize and the clear
KeepSurface(cv, W, H) == [cv EXCEPT !.width = W, !.height = H]

\* lines 58-64: size the canvas and clear it
ResetAndClear(cv, W, H) == ClearRect(SetSize(cv, W, H))

Save(cv) == [cv EXCEPT !.stack = Append(@, cv.ctx)]

Restore(cv) ==
  IF cv.stack = <<>> THEN cv
  ELSE [cv EXCEPT !.ctx = cv.stack[Len(cv.stack)],
                  !.stack = SubSeq(@, 1, Len(@) - 1)]

SetComp(cv, c) == [cv EXCEPT !.ctx.comp = c]
SetFilter(cv, f) == [cv EXCEPT !.ctx.filter = f]
SetFill(cv, s) == [cv EXCEPT !.ctx.fillStyle = s]
SetStroke(cv, s, w) == [cv EXCEPT !.ctx.strokeStyle = s, !.ctx.lineWidth = w]

\* one paint operation, under the drawing state in force
Paint(cv, stage, kind, style, args, src) ==
  [cv EXCEPT !.ops = Append(@,
     [stage |-> stage, kind |-> kind, comp |-> cv.ctx.comp, filter |-> cv.ctx.filter,
      style |-> style, lineWidth |-> cv.ctx.lineWidth, args |-> args, src |-> src])]

FillRect(cv, stage, W, H) ==
  Paint(cv, stage, "fillRect", cv.ctx.fillStyle, <<0, 0, W, H>>, <<>>)

\* useState initial values, lines 16-27
DefaultParams ==
  [size |-> 1024, glow |-> 24, intensity |-> 70, cyanize |-> 55, contrast |-> 110,
   saturation |-> 125, vignette |-> 35, particles |-> 150, lightning |-> TRUE,
   background |-> "dark"]

\* the values the controls are moved to (each control: its default and one other)
Choices ==
  [size |-> {512, 1024}, glow |-> {0, 24}, intensity |-> {0, 70}, cyanize |-> {55, 100},
   contrast |-> {110, 200}, saturation |-> {125, 20}, vignette |-> {0, 35},
   particles |-> {0, 150}, lightning |-> BOOLEAN, background |-> {"dark", "transparent"}]

\* lightning branches passed by draw, line 104
Branches == 6

(***************************************************************************)
(* The stages of draw (lines 63-113), each a function of the canvas.       *)
(***************************************************************************)
\* lines 65-71
Background(cv, W, H, bg) ==
  IF bg = "dark"
    THEN FillRect(SetFill(cv, Style("linear", <<0, 0, 0, H>>,
                                    <<Stop("#0b1220", 10000), Stop("#0a0f1a", 10000)>>)),
                  "background", W, H)
    ELSE cv

\* lines 75-79.  drawImage paints nothing when the image has a zero intrinsic
\* side or the source rectangle has a zero side.
Base(cv, iw, ih, W, H, contrast, saturation) ==
  LET f == fitCover(iw, ih, W, H)
      c1 == SetFilter(cv, <<<<"contrast", contrast>>, <<"saturate", saturation>>>>)
      c2 == IF iw = 0 \/ ih = 0 \/ f.s = 0 THEN c1
            ELSE Paint(c1, "base", "drawImage", Color("image"),
                       <<f.sx, f.sy, f.s, f.s, f.dx, f.dy, f.d, f.d>>, <<>>)
  IN  SetFilter(c2, NoFilter)

\* the radial gradient of the tint, lengths in 1/100 px
TintStyle(W, H, cyanize) ==
  LET c == clamp(cyanize, 0, 100)
  IN  Style("radial", <<W * 50, H * 50, W * 15, W * 50, H * 50, W * 80>>,
            <<Stop("0,255,255", 35 * c), Stop("0,160,255", 10 * c)>>)

\* the tint without line 89
TintNoRestore(cv, W, H, cyanize) ==
  FillRect(SetFill(SetComp(cv, "screen"), TintStyle(W, H, cyanize)), "tint", W, H)

\* lines 82-89
Tint(cv, W, H, cyanize) ==
  SetComp(FillRect(SetFill(SetComp(cv, "screen"), TintStyle(W, H, cyanize)), "tint", W, H),
          "source-over")

\* lines 92-98: the canvas drawn onto itself; src is the bitmap it reads.
\* brightness in 1/100, saturate in 1/1000
Glow(cv, glow, intensity) ==
  IF glow > 0
    THEN LET c1 == SetFilter(SetComp(Save(cv), "screen"),
                     <<<<"blur", glow>>, <<"brightness", 100 + intensity>>,
                       <<"saturate", 1000 + 4 * intensity>>>>)
         IN  Restore(Paint(c1, "glow", "drawImage", Color("canvas"), <<0, 0>>, cv.ops))
    ELSE cv

\* the gradient of a sparkle, from the stream state after its four draws
SparkleStyle(s) == Style("radial", <<s[1], s[2]>>,
                         <<Stop("255,255,255", 0), Stop("100,220,255", 0)>>)

\* Math.floor(intensity * 1e6) ^ W ^ H; for every slider value k / 100 the
\* floor of the double product is k * 10000
ParticleSeed(W, H, intensity) == <<0, BitXor(BitXor(intensity * 10000, W), H)>>

\* lines 338-345: the stream drawParticles builds, before and after the four
\* draws of each of its count sparkles
ParticleStream(W, H, count, intensity) ==
  LET s0 == seeded(ParticleSeed(W, H, intensity)) IN <<s0, Advance(s0, 4 * count)>>

\* ParticleStream(W, W, count, intensity) for every value of the controls,
\* computed once (draw passes H = W)
ParticleStreams ==
  [W \in Choices.size |-> [count \in Choices.particles |->
     [k \in Choices.intensity |-> ParticleStream(W, W, count, k)]]]

\* lines 337-355: count sparkles; the operation records the count and the
\* stream states before and after, which determine every sparkle
drawParticles(cv, W, H, count, intensity) ==
  LET run == ParticleStreams[W][count][intensity]
      c1 == SetComp(Save(cv), "screen")
      c2 == IF count > 0
              THEN Paint(SetFill(c1, SparkleStyle(run[2])), "particles", "fill",
                         SparkleStyle(run[2]),
                         <<count, run[1][1], run[1][2], run[2][1], run[2][2]>>, <<>>)
              ELSE c1
  IN  Restore(c2)

\* 12345 + Math.floor(intensity * 1000)
LightningSeed(intensity) == <<0, 12345 + intensity * 10>>

\* 15 + Math.floor(rnd() * 18), from the state that produced the draw
Segments(s) == 15 + (Output(s) * 18) \div (2^24)

\* the stream state after one bolt begun in state s: six draws (x0, y0, len,
\* segments, jitter, angle; the fourth gives the segment count) and four draws
\* a segment (lines 363-378)
BoltEnd(s) == Advance(s, 6 + 4 * Segments(Advance(s, 4)))

\* for bolts b .. branches - 1: the stream state each begins in and its segment count
RECURSIVE BoltRuns(_, _, _)
BoltRuns(s, b, branches) ==
  IF b >= branches THEN <<>>
  ELSE <<<<s, Segments(Advance(s, 4))>>>> \o BoltRuns(BoltEnd(s), b + 1, branches)

\* the bolts of drawLightning for every value of the intensity control, computed once
LightningBolts ==
  [k \in Choices.intensity |-> BoltRuns(seeded(LightningSeed(k)), 0, Branches)]

\* lines 380-390: the glow stroke and the core stroke along the same points;
\* blur in 1/10 px
Bolt(cv, run, b, intensity) ==
  LET args == <<b, run[2], run[1][1], run[1][2]>>
      c1 == SetFilter(SetStroke(cv, Color("rgba(120,220,255,0.55)"), 6),
                      <<<<"blur", 80 + intensity>>>>)
      c2 == Paint(c1, "lightning", "stroke", c1.ctx.strokeStyle, args, <<>>)
      c3 == SetStroke(SetFilter(c2, NoFilter), Color("rgba(200,255,255,0.9)"), 2)
  IN  Paint(c3, "lightning", "stroke", c3.ctx.strokeStyle, args, <<>>)

RECURSIVE Bolts(_, _, _, _)
Bolts(cv, runs, b, intensity) ==
  IF b > Len(runs) THEN cv
  ELSE Bolts(Bolt(cv, runs[b], b - 1, intensity), runs, b + 1, intensity)

\* lines 357-393 (draw passes branches = 6)
drawLightning(cv, W, H, branches, intensity) ==
  Restore(Bolts(SetComp(Save(cv), "screen"),
                SubSeq(LightningBolts[intensity], 1, branches), 1, intensity))

\* lines 107-113; radii in 1/100 px
Vignette(cv, W, H, vignette) ==
  IF vignette > 0
    THEN FillRect(SetFill(cv, Style("radial",
                    <<W * 50, H * 50, W * (100 - vignette), W * 50, H * 50, W * 75>>,
                    <<Stop("0,0,0", 0), Stop("0,0,0", 5500)>>)),
                  "vignette", W, H)
    ELSE cv

(***************************************************************************)
(* The component (lines 13-143).                                           *)
(***************************************************************************)
Controls == DOMAIN Choices

\* the files picked: a wide one, a tall one, and one that decodes to zero width
Files == <<[w |-> 800, h |-> 400], [w |-> 300, h |-> 500], [w |-> 0, h |-> 10]>>

\* the file behind Image i
FileOf(i) == Files[picks[i]]

Stages == <<"clear", "background", "base", "tint", "glow", "particles", "lightning",
            "vignette">>

\* draw with an await after the image is drawn
DrawYieldsAfterBase(at) == at = "tint"

\* draw contains no await: once called it runs to its end before any other
\* handler, effect or callback runs
DrawYields(at) == FALSE

\* another handler may run now
CanRun == pc = "idle" \/ DrawYields(pc)

\* a state update is processed once the pending effect of the last commit has run
CanCommit == CanRun /\ ~effectPending

\* draw with if (img) closed before the particles
NextStageUngated(stage, hasImg) ==
  CASE stage = "background" -> IF hasImg THEN "base" ELSE "particles"
    [] stage = "base" -> "tint"
    [] stage = "tint" -> "glow"
    [] stage = "glow" -> "particles"
    [] stage = "particles" -> "lightning"
    [] stage = "lightning" -> IF hasImg THEN "vignette" ELSE "end"
    [] stage = "vignette" -> "end"

\* draw with the glow pass after the particles
NextStageGlowLate(stage, hasImg) ==
  CASE stage = "background" -> IF hasImg THEN "base" ELSE "end"
    [] stage = "base" -> "tint"
    [] stage = "tint" -> "particles"
    [] stage = "particles" -> "glow"
    [] stage = "glow" -> "lightning"
    [] stage = "lightning" -> "vignette"
    [] stage = "vignette" -> "end"

\* the order of the statements of draw; if (img) at line 74 encloses lines 75-113
NextStage(stage, hasImg) ==
  CASE stage = "background" -> IF hasImg THEN "base" ELSE "end"
    [] stage = "base" -> "tint"
    [] stage = "tint" -> "glow"
    [] stage = "glow" -> "particles"
    [] stage = "particles" -> "lightning"
    [] stage = "lightning" -> "vignette"
    [] stage = "vignette" -> "end"

histVars == <<lastComplete, exported>>
pureVars == <<streams, fit>>

\* handleFile, lines 34-42 (from the file input or a drop): a new Image starts loading
HandleFile(f) ==
  /\ CanRun
  /\ nEvents < MaxEvents
  /\ picks' = Append(picks, f)
  /\ loading' = loading \cup {Len(picks) + 1}
  /\ nEvents' = nEvents + 1
  /\ UNCHANGED <<p, img, busy, effectPending, pc, active, canvas, ran, fitArgs, outcome>>
  /\ UNCHANGED histVars /\ UNCHANGED pureVars

\* image.onload of Image i, lines 37-40: setImg(image)
ImageOnload(i) ==
  /\ CanCommit
  /\ i \in loading
  /\ loading' = loading \ {i}
  /\ img' = i
  /\ effectPending' = (i # img)
  /\ UNCHANGED <<p, busy, picks, pc, active, canvas, ran, fitArgs, outcome, nEvents>>
  /\ UNCHANGED histVars /\ UNCHANGED pureVars

\* a control's onChange, lines 198-248: one setter with a new value
ChangeControl(c, v) ==
  /\ CanCommit
  /\ nEvents < MaxEvents
  /\ v # p[c]
  /\ p' = [p EXCEPT ![c] = v]
  /\ effectPending' = TRUE
  /\ nEvents' = nEvents + 1
  /\ UNCHANGED <<img, busy, picks, loading, pc, active, canvas, ran, fitArgs, outcome>>
  /\ UNCHANGED histVars /\ UNCHANGED pureVars

\* reset, lines 124-134: every option but size back to its default
Reset ==
  /\ CanCommit
  /\ nEvents < MaxEvents
  /\ p' = [DefaultParams EXCEPT !.size = p.size]
  /\ effectPending' = (p' # p)
  /\ nEvents' = nEvents + 1
  /\ UNCHANGED <<img, busy, picks, loading, pc, active, canvas, ran, fitArgs, outcome>>
  /\ UNCHANGED histVars /\ UNCHANGED pureVars

\* download, lines 136-143: cv.toDataURL reads the surface
Download ==
  /\ CanRun
  /\ nEvents < MaxEvents
  /\ exported' = IF Surface(canvas) = lastComplete THEN "complete" ELSE "partial"
  /\ nEvents' = nEvents + 1
  /\ UNCHANGED <<p, img, busy, picks, loading, effectPending, pc, active, canvas, ran,
                 fitArgs, outcome, lastComplete>>
  /\ UNCHANGED pureVars

\* the effect, lines 119-122, calling draw; draw up to line 64
DrawBegin ==
  /\ CanRun
  /\ effectPending
  /\ effectPending' = FALSE
  /\ busy' = TRUE
  /\ active' = active + 1
  /\ canvas' = ResetAndClear(canvas, p.size, p.size)
  /\ ran' = <<"clear">>
  /\ fitArgs' = <<>>
  /\ outcome' = "pending"
  /\ pc' = "background"
  /\ UNCHANGED <<p, img, picks, loading, nEvents>>
  /\ UNCHANGED histVars /\ UNCHANGED pureVars

\* one stage of draw: the canvas after it, whether it executed, and what else it did
Step(stage, cv, executed) ==
  /\ pc = stage
  /\ canvas' = cv
  /\ ran' = IF executed THEN Append(ran, stage) ELSE ran
  /\ pc' = NextStage(stage, img # 0)
  /\ UNCHANGED <<p, img, busy, picks, loading, effectPending, active, outcome, nEvents>>
  /\ UNCHANGED histVars /\ UNCHANGED pureVars

DrawBackground ==
  /\ Step("background", Background(canvas, p.size, p.size, p.background),
          p.background = "dark")
  /\ UNCHANGED fitArgs

DrawBase ==
  /\ pc = "base"
  /\ Step("base", Base(canvas, FileOf(img).w, FileOf(img).h, p.size, p.size,
                       p.contrast, p.saturation), TRUE)
  /\ fitArgs' = Append(fitArgs, <<FileOf(img).w, FileOf(img).h>>)

DrawTint ==
  /\ Step("tint", Tint(canvas, p.size, p.size, p.cyanize), TRUE)
  /\ UNCHANGED fitArgs

DrawGlow ==
  /\ Step("glow", Glow(canvas, p.glow, p.intensity), p.glow > 0)
  /\ UNCHANGED fitArgs

DrawParticles ==
  /\ pc = "particles"
  /\ Step("particles", drawParticles(canvas, p.size, p.size, p.particles, p.intensity), TRUE)
  /\ UNCHANGED fitArgs

DrawLightning ==
  /\ pc = "lightning"
  /\ Step("lightning",
          IF p.lightning THEN drawLightning(canvas, p.size, p.size, Branches, p.intensity)
          ELSE canvas,
          p.lightning)
  /\ UNCHANGED fitArgs

DrawVignette ==
  /\ Step("vignette", Vignette(canvas, p.size, p.size, p.vignette), p.vignette > 0)
  /\ UNCHANGED fitArgs

\* lines 116-117: setBusy(false) and the return of draw
DrawEnd ==
  /\ pc = "end"
  /\ pc' = "idle"
  /\ busy' = FALSE
  /\ active' = active - 1
  /\ outcome' = "resolved"
  /\ lastComplete' = Surface(canvas)
  /\ UNCHANGED <<p, img, picks, loading, effectPending, canvas, ran, fitArgs, nEvents,
                 exported>>
  /\ UNCHANGED pureVars

\* the component after its first commit, before the effect has run
AppInit ==
  /\ p = DefaultParams
  /\ img = 0
  /\ busy = FALSE
  /\ picks = <<>>
  /\ loading = {}
  /\ effectPending = TRUE       \* the effect runs after the first commit
  /\ pc = "idle"
  /\ active = 0
  /\ canvas = InitCanvas
  /\ ran = <<>>
  /\ fitArgs = <<>>
  /\ outcome = "none"
  /\ lastComplete = Surface(InitCanvas)
  /\ exported = "none"
  /\ nEvents = 0

Init == AppInit /\ streams = <<>> /\ fit = <<>>

Next ==
  \/ \E f \in DOMAIN Files : HandleFile(f)
  \/ \E i \in loading : ImageOnload(i)
  \/ \E c \in Controls : \E v \in Choices[c] : ChangeControl(c, v)
  \/ Reset
  \/ Download
  \/ DrawBegin
  \/ DrawBackground
  \/ DrawBase
  \/ DrawTint
  \/ DrawGlow
  \/ DrawParticles
  \/ DrawLightning
  \/ DrawVignette
  \/ DrawEnd

Spec == Init /\ [][Next]_vars

(***************************************************************************)
(* seeded on its own: two streams, created and called in any order.        *)
(***************************************************************************)
\* the seeds tried: 0, 1, 2, a seed drawLightning uses, 2^31 - 1, -1,
\* -(2^31 - 1), 2^32, 2^32 + 1, 2^32 - 1 and -2^32 + 5
TestSeeds ==
  {<<0, 0>>, <<0, 1>>, <<0, 2>>, <<0, 13045>>, <<0, 2147483647>>, <<0, -1>>,
   <<0, -2147483647>>, <<1, 0>>, <<1, 1>>, <<1, -1>>, <<-1, 5>>}

\* const rnd = seeded(seed): a closure over its own s
NewStream(seed) ==
  /\ Len(streams) < 2
  /\ streams' = Append(streams, [seed |-> seed, prev |-> seeded(seed), s |-> seeded(seed),
                                 out |-> <<>>])
  /\ UNCHANGED appVars /\ UNCHANGED fit

\* rnd() on stream i, lines 406-409
CallStream(i) ==
  /\ i \in DOMAIN streams
  /\ Len(streams[i].out) < MaxCalls
  /\ streams' = [streams EXCEPT ![i] =
       [seed |-> @.seed, prev |-> @.s, s |-> LcgStep(@.s),
        out |-> Append(@.out, Output(LcgStep(@.s)))]]
  /\ UNCHANGED appVars /\ UNCHANGED fit

NextRng ==
  \/ \E seed \in TestSeeds : NewStream(seed)
  \/ \E i \in 1..2 : CallStream(i)

SpecRng == Init /\ [][NextRng]_vars

(***************************************************************************)
(* fitCover on its own, onto a square destination.                         *)
(***************************************************************************)
SourceSides == (1..MaxSide) \cup {400, 800}
DestSides == {300, 512, 1024}

CallFitCover(iw, ih, W) ==
  /\ fit' = <<[iw |-> iw, ih |-> ih, W |-> W, H |-> W, out |-> fitCover(iw, ih, W, W)]>>
  /\ UNCHANGED appVars /\ UNCHANGED streams

NextFit == \E iw \in SourceSides, ih \in SourceSides, W \in DestSides : CallFitCover(iw, ih, W)

SpecFit == Init /\ [][NextFit]_vars

(***************************************************************************)
(* The properties.                                                         *)
(***************************************************************************)
Range(q) == {q[i] : i \in DOMAIN q}

StageIndex(st) == CHOOSE i \in DOMAIN Stages : Stages[i] = st

ImageStages == {"base", "tint", "glow", "vignette"}

\* C1, as the spec states it: a draw with no source image still runs Particles
\* and, when lightning is on, Lightning, and skips Base Image, Tint, Glow and
\* Vignette.
C1_ParticlesWithoutImage ==
  (pc = "end" /\ img = 0) =>
     /\ "particles" \in Range(ran)
     /\ (p.lightning => "lightning" \in Range(ran))
     /\ Range(ran) \cap ImageStages = {}

\* C1, amended: a draw with no source image runs only the clear and the
\* Background stage; Particles runs exactly when a source image is loaded, and
\* Lightning exactly when a source image is loaded and lightning is on.
C1_ParticlesNeedImage ==
  pc = "end" =>
     /\ (img = 0 => Range(ran) \subseteq {"clear", "background"})
     /\ (img = 0 => \A i \in DOMAIN canvas.ops : canvas.ops[i].stage = "background")
     /\ ("particles" \in Range(ran) <=> img # 0)
     /\ ("lightning" \in Range(ran) <=> (img # 0 /\ p.lightning))

\* a draw without image, with sparkles and lightning asked for, has run to its end
C1_Witness ==
  /\ pc = "end" /\ img = 0 /\ p.lightning /\ p.particles > 0
  /\ ran = <<"clear", "background">>

\* C2: in every draw the stages that execute do so at most once each and in
\* the order clear, Background, Base Image, Tint, Glow, Particles, Lightning,
\* Vignette, and the surface Glow reads holds the Tint and nothing of
\* Particles, Lightning or Vignette.
C2_StageOrder ==
  /\ (ran # <<>> => ran[1] = "clear")
  /\ \A i \in 1..(Len(ran) - 1) : StageIndex(ran[i]) < StageIndex(ran[i + 1])
  /\ \A i \in 1..(Len(canvas.ops) - 1) :
       StageIndex(canvas.ops[i].stage) <= StageIndex(canvas.ops[i + 1].stage)
  /\ \A i \in DOMAIN canvas.ops :
       canvas.ops[i].stage = "glow" =>
         /\ \E j \in DOMAIN canvas.ops[i].src : canvas.ops[i].src[j].stage = "tint"
         /\ \A j \in DOMAIN canvas.ops[i].src :
              canvas.ops[i].src[j].stage \in {"background", "base", "tint"}

\* a draw in which every stage executed
C2_Witness == pc = "end" /\ ran = Stages

\* the file behind the image in React state, or no file
CurrentFile == IF img = 0 THEN [w |-> 0, h |-> 0] ELSE FileOf(img)

\* draw run from the first line to the last on a canvas in state cv
RenderOn(cv, hasImg, file, q) ==
  LET c0 == ResetAndClear(cv, q.size, q.size)
      c1 == Background(c0, q.size, q.size, q.background)
      c2 == Base(c1, file.w, file.h, q.size, q.size, q.contrast, q.saturation)
      c3 == Tint(c2, q.size, q.size, q.cyanize)
      c4 == Glow(c3, q.glow, q.intensity)
      c5 == drawParticles(c4, q.size, q.size, q.particles, q.intensity)
      c6 == IF q.lightning THEN drawLightning(c5, q.size, q.size, Branches, q.intensity)
            ELSE c5
  IN  IF hasImg THEN Vignette(c6, q.size, q.size, q.vignette) ELSE c1

\* C3: a render is determined by its inputs: whatever renders came before on
\* the same canvas, the surface a completed draw leaves is the one the same
\* source image and parameters give on a canvas never drawn on.
C3_Deterministic ==
  (pc = "idle" /\ ~effectPending /\ outcome = "resolved") =>
     Surface(canvas) = Surface(RenderOn(InitCanvas, img # 0, CurrentFile, p))

\* a render with an image and changed controls has completed; the render at
\* mount (no image, default controls) came before it on the same canvas
C3_Witness ==
  /\ pc = "idle" /\ ~effectPending /\ outcome = "resolved"
  /\ img # 0 /\ CurrentFile.w > 0
  /\ p # DefaultParams /\ p.particles > 0 /\ p.lightning /\ p.glow > 0

\* the source image in React state has a zero side
Degenerate == img # 0 /\ (CurrentFile.w = 0 \/ CurrentFile.h = 0)

\* C4: a draw given a source image with a zero width or height never hands
\* that geometry to fitCover and ends in an InvalidInput error.
C4_DegenerateRejected ==
  (Degenerate /\ ~effectPending) =>
     /\ fitArgs = <<>>
     /\ (pc = "idle" => outcome = "InvalidInput")

\* C8: at most one draw is in progress, and every download reads the surface
\* as the last completed draw left it (or as it was before any draw), never a
\* surface between the start and the end of a draw.
C8_ExportComplete == active <= 1 /\ exported # "partial"

\* a download has read the surface a completed draw with an image left
C8_Witness ==
  /\ exported = "complete" /\ img # 0 /\ pc = "idle" /\ ~effectPending
  /\ lastComplete.ops # <<>> /\ lastComplete = Surface(canvas)

\* C9: at the return of each of Base Image, Tint, Glow, Particles, Lightning
\* and Vignette the compositing operator is source-over and the filter is none.
C9_NeutralState ==
  pc \in {"tint", "glow", "particles", "lightning", "vignette", "end"} =>
     /\ canvas.ctx.comp = "source-over"
     /\ canvas.ctx.filter = NoFilter

\* a draw with an image, no sparkles and no glow has drawn its lightning
C9_Witness ==
  /\ pc = "vignette" /\ img # 0 /\ p.particles = 0 /\ p.glow = 0
  /\ "lightning" \in Range(ran) /\ "base" \in Range(ran)

\* C10: once every load has completed, the image in React state shows the
\* file chosen last, whatever order the onload callbacks fired in.
C10_LatestFileShown ==
  (Len(picks) >= 2 /\ loading = {}) => (img # 0 /\ picks[img] = picks[Len(picks)])

\* the bytes of a 32-bit state, lowest first
Bytes(s) == <<s[2] % 256, s[2] \div 256, s[1] % 256, s[1] \div 256>>

\* (1664525 * s + 1013904223) mod 2^32 by long multiplication in base 256:
\* 1664525 is 25, 102, 13 and 1013904223 is 60, 110, 243, 95 (highest first)
LcgReference(s) ==
  LET b == Bytes(s)
      k0 == 13 * b[1] + 95
      k1 == 13 * b[2] + 102 * b[1] + 243 + (k0 \div 256)
      k2 == 13 * b[3] + 102 * b[2] + 25 * b[1] + 110 + (k1 \div 256)
      k3 == 13 * b[4] + 102 * b[3] + 25 * b[2] + 60 + (k2 \div 256)
  IN  <<(k3 % 256) * 256 + (k2 % 256), (k1 % 256) * 256 + (k0 % 256)>>

\* the number k * 2^32 + n modulo 2^32, in limbs
Reduced(seed) ==
  IF seed[2] >= 0 THEN <<seed[2] \div Limb, seed[2] % Limb>>
  ELSE LET m == (seed[2] + 2147483647) + 1
       IN  <<(m \div Limb) + 32768, m % Limb>>

InRange(s) == s[1] \in 0..(Limb - 1) /\ s[2] \in 0..(Limb - 1)

\* the two seeds are the same number, or they are 0 and 1
SeedsAgree(a, b) == a = b \/ {a, b} = {<<0, 0>>, <<0, 1>>}

\* C6: two streams with the same seed return the same value on their n-th
\* call, in whatever order the calls on the two are made, and a stream seeded
\* with 0 returns what a stream seeded with 1 returns.
C6_SameSeedSameSequence ==
  (Len(streams) = 2 /\ SeedsAgree(streams[1].seed, streams[2].seed)) =>
     \A n \in 1..Min(Len(streams[1].out), Len(streams[2].out)) :
        streams[1].out[n] = streams[2].out[n]

\* a stream seeded with 0 and one seeded with 1 were both called to the bound
C6_Witness ==
  /\ Len(streams) = 2
  /\ streams[1].seed = <<0, 0>> /\ streams[2].seed = <<0, 1>>
  /\ Len(streams[1].out) = MaxCalls /\ Len(streams[2].out) = MaxCalls

\* C7: a stream starts from its seed reduced modulo 2^32 (1 when that is 0),
\* its state stays in 0 .. 2^32 - 1, each call takes the state s to
\* (1664525 * s + 1013904223) mod 2^32 and returns (new state mod 2^24) / 2^24,
\* which is at least 0 and below 1.
C7_LcgContract ==
  \A i \in DOMAIN streams :
     LET st == streams[i] IN
     /\ InRange(st.s) /\ InRange(st.prev)
     /\ st.out = <<>> =>
          st.s = IF Reduced(st.seed) = <<0, 0>> THEN <<0, 1>> ELSE Reduced(st.seed)
     /\ st.out # <<>> =>
          /\ st.s = LcgReference(st.prev)
          /\ st.out[Len(st.out)] = Bytes(st.s)[3] * 65536 + Bytes(st.s)[2] * 256 + Bytes(st.s)[1]
     /\ \A n \in DOMAIN st.out : st.out[n] >= 0 /\ st.out[n] < 2^24

\* a stream with a negative seed, or one of 2^32 or more, was called to the
\* bound and its state is 2^31 or more
C7_Witness ==
  \E i \in DOMAIN streams :
     /\ (streams[i].seed[2] < 0 \/ streams[i].seed[1] > 0)
     /\ Len(streams[i].out) = MaxCalls
     /\ streams[i].s[1] >= 32768

\* C5: for source sides of 1 or more and a square destination fitCover gives
\* a centred square crop: a wider source is cropped to its height, any other
\* to its width; dx = dy = 0 and d = W; the crop lies inside the source; a
\* square source is not cropped; (800, 400) onto (300, 300) gives s = 400,
\* sx = 200, sy = 0.
C5_FitCover ==
  fit # <<>> =>
     LET iw == fit[1].iw
         ih == fit[1].ih
         f == fit[1].out
     IN  /\ iw > ih => (f.s = ih /\ f.sx = (iw - f.s) \div 2 /\ f.sy = 0)
         /\ iw <= ih => (f.s = iw /\ f.sx = 0 /\ f.sy = (ih - f.s) \div 2)
         /\ f.dx = 0 /\ f.dy = 0 /\ f.d = fit[1].W
         /\ 0 <= f.sx /\ f.sx + f.s <= iw /\ 0 <= f.sy /\ f.sy + f.s <= ih
         /\ iw = ih => (f.sx = 0 /\ f.sy = 0 /\ f.s = iw)
         /\ (iw = 800 /\ ih = 400 /\ fit[1].W = 300) => (f.s = 400 /\ f.sx = 200 /\ f.sy = 0)

\* fitCover was applied to (800, 400) onto (300, 300)
C5_Witness ==
  fit # <<>> /\ fit[1].iw = 800 /\ fit[1].ih = 400 /\ fit[1].W = 300 /\ fit[1].out.s = 400

====
